---- MODULE Spec2Model ----
(***************************************************************************)
(* Model of the admission and authentication gateway of the chisel server  *)
(* (src/server/server.go): the credential index s.users, the session map   *)
(* s.sessions, the two password callbacks authUser and authUserURL, and    *)
(* the runtime operations AddUser, DeleteUser and ResetUsers.              *)
(*                                                                         *)
(* Strings are sequences of one-character strings, so that splitting a     *)
(* username at '@' and comparing passwords byte by byte are computed and   *)
(* not assumed.  settings.Users / settings.UserIndex (package              *)
(* share/settings) are not part of the source file; their operations Len,  *)
(* Get, Set, Del, Reset and LoadUserIndex are modelled from the            *)
(* specification's description of CredentialStore and SessionRegistry      *)
(* (each operation is atomic; a store is a mapping from name to record).   *)
(***************************************************************************)
EXTENDS Integers, Sequences, FiniteSets, TLC

(***************************************************************************)
(* Bounds of the model.                                                    *)
(***************************************************************************)
\* number of connection-handling tasks that may run a password callback
NumConns == 2
\* password attempts one connection may make one after the other (Spec)
MaxCalls == 1
\* longest list of address patterns passed to AddUser (SpecUsers)
MaxAddrs == 2

Conns == 1..NumConns

(***************************************************************************)
(* Values.                                                                 *)
(***************************************************************************)

\* user names known to the credential index
StoreNames == { <<"b">>, <<"b", "@", "x">> }
\* user names a peer may present in the handshake
UserNames == StoreNames \cup { <<"b", "@", "x", "@", "y">> }
Passwords == { <<"p", "w">>, <<"P", "w">> }
\* session ids, issued by the handshake library
SessionIDs == 1..NumConns

\* address patterns: "(" is not a regular expression
GoodPatterns == { "", "^h$" }
BadPatterns == { "(" }
Patterns == GoodPatterns \cup BadPatterns

SeqsUpTo(S, n) == UNION { [1..k -> S] : k \in 0..n }

\* settings.UserAllowAll, the pattern given to the inline --auth user
UserAllowAll == ""

MkUser(n, p, a) == [Name |-> n, Pass |-> p, Addrs |-> a]

\* what a nil *User stands for in the model
NoUser == MkUser(<< >>, << >>, << >>)

(***************************************************************************)
(* settings.Users: a map from string to *User behind a lock.               *)
(***************************************************************************)
EmptyMap == << >>

MapLen(m) == Cardinality(DOMAIN m)

MapHas(m, k) == k \in DOMAIN m

MapGet(m, k) == IF k \in DOMAIN m THEN m[k] ELSE NoUser

MapSet(m, k, v) == [x \in (DOMAIN m) \cup {k} |-> IF x = k THEN v ELSE m[x]]

MapDel(m, k) == [x \in (DOMAIN m) \ {k} |-> m[x]]

RECURSIVE MapFromList(_)
MapFromList(list) ==
    IF list = << >> THEN EmptyMap
    ELSE LET n == Len(list)
         IN  MapSet(MapFromList(SubSeq(list, 1, n - 1)), list[n].Name, list[n])

\* Users.Reset(users): replace the whole map, later entries of a name winning
MapReset(list) == MapFromList(list)

\* merge by name: every record of f replaces or adds the entry of its name
MapMerge(m, f) == [x \in (DOMAIN m) \cup (DOMAIN f) |-> IF x \in DOMAIN f THEN f[x] ELSE m[x]]


(***************************************************************************)
(* Pure helpers of the callbacks and of AddUser.                           *)
(***************************************************************************)
\* regexp.Compile(addr) succeeds
Compiles(addr) == addr \notin BadPatterns

\* the loop of AddUser: compile the patterns in order, stop at the first error
RECURSIVE CompileAll(_)
CompileAll(addrs) ==
    IF addrs = << >> THEN [err |-> FALSE, res |-> << >>]
    ELSE IF ~Compiles(Head(addrs)) THEN [err |-> TRUE, res |-> << >>]
    ELSE LET rest == CompileAll(Tail(addrs))
         IN  IF rest.err THEN rest
             ELSE [err |-> FALSE, res |-> <<Head(addrs)>> \o rest.res]

\* a variant of PassMatches that ignores the case of letters (strings.EqualFold)
ToLower(ch) == IF ch = "P" THEN "p" ELSE IF ch = "W" THEN "w" ELSE ch
PassMatchesFold(stored, presented) ==
    [i \in DOMAIN stored |-> ToLower(stored[i])] =
        [i \in DOMAIN presented |-> ToLower(presented[i])]

\* user.Pass != string(password): byte-wise string comparison
PassMatches(stored, presented) == stored = presented

\* strings.Split(s, sep) for a one-character separator
RECURSIVE Split(_, _)
Split(s, sep) ==
    IF s = << >> THEN << << >> >>
    ELSE LET r == Split(Tail(s), sep)
         IN  IF Head(s) = sep THEN << << >> >> \o r
             ELSE << <<Head(s)>> \o r[1] >> \o Tail(r)

\* a variant of UserNameACL that cuts at the last '@' instead of the first
RECURSIVE BeforeLastAt(_)
BeforeLastAt(s) ==
    IF \A i \in DOMAIN s : s[i] # "@" THEN s
    ELSE IF s[Len(s)] = "@" THEN SubSeq(s, 1, Len(s) - 1)
    ELSE BeforeLastAt(SubSeq(s, 1, Len(s) - 1))
UserNameACLLastAt(username, assumeUnique) ==
    IF assumeUnique THEN BeforeLastAt(username) ELSE username

\* the ACL lookup key of authUserURL
UserNameACL(username, assumeUnique) ==
    IF assumeUnique THEN Split(username, "@")[1] ELSE username

\* a variant of Is2xx whose upper limit is off by one
Is2xxInclusive(status) == status >= 200 /\ status <= 300

\* resp.StatusCode >= 200 && resp.StatusCode < 300
Is2xx(status) == status >= 200 /\ status < 300

\* response bodies of the auth endpoint and what json.Unmarshal into a
\* map[string]interface{} makes of them: an object fills the map, null
\* leaves it nil without error, anything else is an error
Bodies == { "{}", "{\"ok\":true}", "null", "[]" }
JSONKind(body) ==
    CASE body = "{}" -> "object"
      [] body = "{\"ok\":true}" -> "object"
      [] body = "null" -> "null"
      [] body = "[]" -> "array"
      [] OTHER -> "invalid"
UnmarshalOK(body) == JSONKind(body) \in { "object", "null" }

Statuses == { 199, 200, 299, 300 }
PostError == [err |-> TRUE, status |-> 0, readOK |-> FALSE, body |-> ""]
Responses ==
    { PostError } \cup
    [err : {FALSE}, status : Statuses, readOK : BOOLEAN, body : Bodies]
NoResp == [err |-> FALSE, status |-> 0, readOK |-> FALSE, body |-> ""]

(***************************************************************************)
(* What the credential file may hold when it is (re)loaded.                *)
(***************************************************************************)
FileUsers ==
    { MapReset(<< >>),
      MapReset(<< MkUser(<<"b">>, <<"p", "w">>, <<"">>) >>),
      MapReset(<< MkUser(<<"b">>, <<"P", "w">>, <<"^h$">>),
                  MkUser(<<"b", "@", "x">>, <<"p", "w">>, <<"", "^h$">>) >>) }

(***************************************************************************)
(* State.                                                                  *)
(***************************************************************************)
VARIABLES
    startup,    \* how NewServer ended: "serving", "error" (nil, err), "fatal"
    rootCAs,    \* the certificates the auth URL client trusts
    reverseProxy, \* s.reverseProxy: unset, or the backend it forwards to
    forwarded,  \* the latest request the reverse proxy directed
    config,     \* the Config: the fields that decide how NewServer ends
                \* and those authUserURL reads
    callback,   \* sshConfig.PasswordCallback: "authUser" or "authUserURL"
    users,      \* s.users: the credential index
    sessions,   \* s.sessions: session id -> identity
    calls,      \* per connection: the password callback in progress
    ncalls,     \* per connection: callbacks started so far
    last        \* the latest AddUser/DeleteUser/ResetUsers call and its result

vars == << startup, rootCAs, reverseProxy, forwarded,
          config, callback, users, sessions, calls, ncalls, last >>

\* what NewServer sets and nothing changes afterwards
built == << startup, rootCAs, reverseProxy, config, callback >>

\* outcomes of a verification: rejected, accepted with nothing recorded,
\* accepted with an identity recorded for the session
Rejected == [ok |-> FALSE, bound |-> << >>]
Anonymous == [ok |-> TRUE, bound |-> << >>]
BoundTo(user) == [ok |-> TRUE, bound |-> <<user>>]

\* the Local policy evaluated on one content m of the index
LocalPolicy(m, u, p) ==
    IF DOMAIN m = {} THEN Anonymous
    ELSE IF u \in DOMAIN m /\ m[u].Pass = p THEN BoundTo(m[u])
    ELSE Rejected

\* a connection with no callback in progress.  pc is the position in the
\* callback; user, pass, sid are its arguments; key and acl are the locals
\* userNameACL and userACL / user; ok is the returned error being nil.
\* The other fields record history: resp (the HTTP response), nlen (what
\* s.users.Len() returned, -1 before), looked (each s.users.Get: the key,
\* what the index held for it and whether it was empty), reloads (LoadUserIndex calls), bound (the
\* identity passed to s.sessions.Set, if any), sess0 (the session map when
\* the call started), atomic (what the Local policy gives on every content
\* the index had while the call ran) and closed (the connection was closed
\* while the callback was running).  err is the error returned and order
\* the rank of the call's s.sessions.Set among those of the calls on record
\* (0 before it).
NoErr == [text |-> "", args |-> << >>]

IdleCall ==
    [pc |-> "idle", user |-> << >>, pass |-> << >>, sid |-> 0,
     key |-> << >>, acl |-> NoUser, ok |-> FALSE, resp |-> NoResp,
     nlen |-> -1, looked |-> << >>, reloads |-> 0, bound |-> << >>,
     sess0 |-> EmptyMap, atomic |-> {}, closed |-> FALSE, err |-> NoErr,
     order |-> 0]

Lookup(m, k) ==
    [key |-> k, found |-> k \in DOMAIN m, rec |-> MapGet(m, k),
     empty |-> MapLen(m) = 0]

\* the index became nu: every authUser call in progress has lived through it
Observed(cs, nu) ==
    [c \in Conns |->
        IF cs[c].pc \in { "len", "get", "set" }
        THEN [cs[c] EXCEPT !.atomic = @ \cup { LocalPolicy(nu, cs[c].user, cs[c].pass) }]
        ELSE cs[c]]

NoOp == [op |-> "none", user |-> << >>, pass |-> << >>, addrs |-> << >>,
         list |-> << >>, err |-> FALSE, before |-> EmptyMap]

(***************************************************************************)
(* NewServer.                                                              *)
(***************************************************************************)
\* c.AuthFile: empty, or the path of a file holding some users
\* (err: s.users.LoadUsers fails on it)
AuthFiles ==
    { [set |-> FALSE, err |-> FALSE, content |-> EmptyMap] }
        \cup [set : {TRUE}, err : {FALSE}, content : FileUsers]

\* c.Auth: empty, or what settings.ParseAuth makes of it, a name and a password
InlineAuths ==
    { [set |-> FALSE, name |-> << >>, pass |-> << >>],
      [set |-> TRUE, name |-> <<"b">>, pass |-> <<"p", "w">>],
      [set |-> TRUE, name |-> << >>, pass |-> <<"p", "w">>] }

\* c.AuthURLCaCert: empty, or the path of a file that can be read or not and
\* whose content holds a PEM certificate or not
NoCaCert == [set |-> FALSE, readable |-> FALSE, pem |-> FALSE]
CaCerts ==
    { NoCaCert,
      [set |-> TRUE, readable |-> FALSE, pem |-> FALSE],
      [set |-> TRUE, readable |-> TRUE, pem |-> FALSE],
      [set |-> TRUE, readable |-> TRUE, pem |-> TRUE] }

\* c.Proxy: empty, or one of these targets
ProxyURLs ==
    { "https://backend:8443", "http://backend/base", "http://",
      "backend:8443", "127.0.0.1:8080", ":8080" }

\* url.Parse on the targets above.  A leading colon is a missing scheme and
\* a first path segment with a colon and no scheme before it is refused;
\* letters up to a colon are a scheme, and what follows it without "//" is
\* opaque, so that no host is found.
URLParse(raw) ==
    CASE raw = "https://backend:8443" ->
             [err |-> FALSE, Scheme |-> "https", Host |-> "backend:8443", Path |-> ""]
      [] raw = "http://backend/base" ->
             [err |-> FALSE, Scheme |-> "http", Host |-> "backend", Path |-> "/base"]
      [] raw = "http://" ->
             [err |-> FALSE, Scheme |-> "http", Host |-> "", Path |-> ""]
      [] raw = "backend:8443" ->
             [err |-> FALSE, Scheme |-> "backend", Host |-> "", Path |-> ""]
      [] OTHER ->
             [err |-> TRUE, Scheme |-> "", Host |-> "", Path |-> ""]

\* the Config, with what the environment makes of it: KeyErr (the private
\* key cannot be generated or parsed) and SystemCertPool (x509.SystemCertPool
\* returns a pool)
Configs ==
    [AuthFile : AuthFiles,
     Auth : InlineAuths,
     AuthURL : BOOLEAN,
     AuthURLAssumeUniqueUsernames : BOOLEAN,
     AuthURLCaCert : { NoCaCert },
     SystemCertPool : { TRUE },
     KeyErr : { FALSE },
     Proxy : { "" }]

\* the index NewServer builds: the file's users, then the inline user
\* (all addresses allowed) unless its name is empty
NewServerUsers(c) ==
    LET loaded == IF c.AuthFile.set THEN c.AuthFile.content ELSE EmptyMap
    IN  IF c.Auth.set /\ c.Auth.name # << >>
        THEN MapSet(loaded, c.Auth.name, MkUser(c.Auth.name, c.Auth.pass, <<UserAllowAll>>))
        ELSE loaded

\* a variant of NewServerCallback that keeps authUser when AuthURL is set
NewServerCallbackLocal(c) == "authUser"

\* PasswordCallback is authUser, replaced by authUserURL when AuthURL is set
NewServerCallback(c) == IF c.AuthURL THEN "authUserURL" ELSE "authUser"

\* a variant of CaCertFatal that also stops when no certificate is appended
CaCertFatalOnAppend(ca) == ca.set /\ (~ca.readable \/ ~ca.pem)

\* ioutil.ReadFile(c.AuthURLCaCert) fails: log.Fatalf
CaCertFatal(ca) == ca.set /\ ~ca.readable

\* rootCAs: the system pool, or a new pool when there is none, and the
\* certificates of the file when AppendCertsFromPEM finds any; when it finds
\* none a line is logged and the pool stays as it is
NewServerRootCAs(c) ==
    (IF c.SystemCertPool THEN { "system" } ELSE {})
        \cup (IF /\ c.AuthURLCaCert.set /\ c.AuthURLCaCert.readable
                 /\ c.AuthURLCaCert.pem
              THEN { "ca" } ELSE {})

\* a variant of ProxyInvalid without the check of the host
ProxyInvalidOnParse(u) == u.err

\* url.Parse failed, or u.Host == ""
ProxyInvalid(u) == u.err \/ u.Host = ""

NoProxy == [set |-> FALSE, Scheme |-> "", Host |-> ""]

\* httputil.NewSingleHostReverseProxy(u), of which the Director keeps u.Scheme
\* and u.Host
NewServerReverseProxy(c) ==
    IF c.Proxy = "" THEN NoProxy
    ELSE [set |-> TRUE, Scheme |-> URLParse(c.Proxy).Scheme,
          Host |-> URLParse(c.Proxy).Host]

\* how NewServer ends: LoadUsers fails (return nil, err), the key cannot be
\* made (log.Fatal), the CA file cannot be read (log.Fatalf), the proxy
\* target is refused (return nil, err), or the server is returned
NewServerStartup(c) ==
    IF c.AuthFile.set /\ c.AuthFile.err THEN "error"
    ELSE IF c.KeyErr THEN "fatal"
    ELSE IF c.AuthURL /\ CaCertFatal(c.AuthURLCaCert) THEN "fatal"
    ELSE IF c.Proxy # "" /\ ProxyInvalid(URLParse(c.Proxy)) THEN "error"
    ELSE "serving"

\* the Config as the state keeps it: all but the users it names
ConfigOf(c) ==
    [AuthURL |-> c.AuthURL,
     AuthURLAssumeUniqueUsernames |-> c.AuthURLAssumeUniqueUsernames,
     AuthURLCaCert |-> c.AuthURLCaCert,
     SystemCertPool |-> c.SystemCertPool,
     KeyErr |-> c.KeyErr,
     LoadUsersErr |-> c.AuthFile.set /\ c.AuthFile.err,
     Proxy |-> c.Proxy]

NoForward == [set |-> FALSE,
              in |-> [Scheme |-> "", URLHost |-> "", Host |-> "", Path |-> ""],
              out |-> [Scheme |-> "", URLHost |-> "", Host |-> "", Path |-> ""]]

\* no Server exists unless NewServer returns one
NewServer(c) ==
    /\ startup = NewServerStartup(c)
    /\ config = ConfigOf(c)
    /\ rootCAs = IF startup = "serving" /\ c.AuthURL THEN NewServerRootCAs(c) ELSE {}
    /\ reverseProxy = IF startup = "serving" THEN NewServerReverseProxy(c) ELSE NoProxy
    /\ forwarded = NoForward
    /\ callback = IF startup = "serving" THEN NewServerCallback(c) ELSE "none"
    /\ users = IF startup = "serving" THEN NewServerUsers(c) ELSE EmptyMap
    /\ sessions = EmptyMap
    /\ calls = [x \in Conns |-> IdleCall]
    /\ ncalls = [x \in Conns |-> 0]
    /\ last = NoOp

Init == \E c \in Configs : NewServer(c)

(***************************************************************************)
(* The handshake library invokes the password callback of a connection     *)
(* with the user name, the password and the session id.                    *)
(***************************************************************************)
Start(c, u, p, id, limit) ==
    /\ startup = "serving"
    /\ calls[c].pc = "idle"
    /\ ncalls[c] < limit
    /\ calls' = [calls EXCEPT ![c] =
           [IdleCall EXCEPT !.pc = IF callback = "authUser" THEN "len" ELSE "marshal",
                            !.user = u, !.pass = p, !.sid = id,
                            !.sess0 = sessions,
                            !.atomic = IF callback = "authUser"
                                       THEN { LocalPolicy(users, u, p) } ELSE {}]]
    /\ ncalls' = [ncalls EXCEPT ![c] = @ + 1]
    /\ UNCHANGED << built, forwarded, users, sessions, last >>

\* the callback has returned; the peer may try another password
Return(c) ==
    /\ calls[c].pc = "done"
    /\ ~calls[c].closed
    /\ calls' = [calls EXCEPT ![c] = IdleCall]
    /\ UNCHANGED << built, forwarded, users, sessions, ncalls, last >>

\* a variant of Failed that formats the text with the user name, as
\* fmt.Errorf(text, c.User()) would
FailedNamingUser(call, text) ==
    [call EXCEPT !.pc = "done", !.ok = FALSE,
                 !.err = [text |-> text, args |-> <<call.user>>]]

\* return nil, errors.New(text): the text as written, nothing formatted in
Failed(call, text) ==
    [call EXCEPT !.pc = "done", !.ok = FALSE,
                 !.err = [text |-> text, args |-> << >>]]
\* return nil, nil
Succeeded(call) == [call EXCEPT !.pc = "done", !.ok = TRUE]

(***************************************************************************)
(* authUser.                                                               *)
(***************************************************************************)
\* a variant of AllowAll without the open-auth fallback
AllowNone(m) == FALSE

\* s.users.Len() == 0
AllowAll(m) == MapLen(m) = 0

\* !found || user.Pass != string(password)
InvalidLogin(m, n, password) ==
    ~MapHas(m, n) \/ ~PassMatches(MapGet(m, n).Pass, password)

\* if s.users.Len() == 0 { return nil, nil }
AuthUserLen(c) ==
    /\ calls[c].pc = "len"
    /\ LET call == [calls[c] EXCEPT !.nlen = MapLen(users)]
       IN  calls' = [calls EXCEPT ![c] =
               IF AllowAll(users) THEN Succeeded(call)
               ELSE [call EXCEPT !.pc = "get"]]
    /\ UNCHANGED << built, forwarded, users, sessions, ncalls, last >>

\* a variant of AuthUserGet that registers the session as soon as the user
\* is found, before the password is checked
AuthUserGetBindsFirst(c) ==
    /\ calls[c].pc = "get"
    /\ LET call == [calls[c] EXCEPT !.looked = Append(@, Lookup(users, calls[c].user))]
       IN  /\ sessions' = IF MapHas(users, call.user)
                           THEN MapSet(sessions, call.sid, MapGet(users, call.user))
                           ELSE sessions
           /\ calls' = [calls EXCEPT ![c] =
                  IF InvalidLogin(users, call.user, call.pass)
                  THEN Failed(call, "Invalid authentication for username: %s")
                  ELSE Succeeded([call EXCEPT !.acl = MapGet(users, call.user),
                                              !.bound = <<MapGet(users, call.user)>>])]
    /\ UNCHANGED << built, forwarded, users, ncalls, last >>

\* user, found := s.users.Get(n) and the password check
AuthUserGet(c) ==
    /\ calls[c].pc = "get"
    /\ LET call == [calls[c] EXCEPT !.looked = Append(@, Lookup(users, calls[c].user))]
       IN  calls' = [calls EXCEPT ![c] =
               IF InvalidLogin(users, call.user, call.pass)
                  THEN Failed(call, "Invalid authentication for username: %s")
               ELSE [call EXCEPT !.pc = "set", !.acl = MapGet(users, call.user)]]
    /\ UNCHANGED << built, forwarded, users, sessions, ncalls, last >>

\* the rank of the next s.sessions.Set
NextOrder == 1 + Cardinality({ d \in Conns : calls[d].order > 0 })

\* a variant of AuthUserSet that keeps the entry a session id already has
AuthUserSetIfAbsent(c) ==
    /\ calls[c].pc = "set"
    /\ sessions' = IF MapHas(sessions, calls[c].sid) THEN sessions
                   ELSE MapSet(sessions, calls[c].sid, calls[c].acl)
    /\ calls' = [calls EXCEPT ![c] = Succeeded([@ EXCEPT !.bound = <<calls[c].acl>>,
                                                         !.order = NextOrder])]
    /\ UNCHANGED << built, forwarded, users, ncalls, last >>

\* a variant of AuthUserSet that keys the session map by a value that is the
\* same for every connection
AuthUserSetSharedKey(c) ==
    /\ calls[c].pc = "set"
    /\ sessions' = MapSet(sessions, 1, calls[c].acl)
    /\ calls' = [calls EXCEPT ![c] = Succeeded([@ EXCEPT !.bound = <<calls[c].acl>>])]
    /\ UNCHANGED << built, forwarded, users, ncalls, last >>

\* s.sessions.Set(string(c.SessionID()), user); return nil, nil
AuthUserSet(c) ==
    /\ calls[c].pc = "set"
    /\ sessions' = MapSet(sessions, calls[c].sid, calls[c].acl)
    /\ calls' = [calls EXCEPT ![c] = Succeeded([@ EXCEPT !.bound = <<calls[c].acl>>,
                                                         !.order = NextOrder])]
    /\ UNCHANGED << built, forwarded, users, ncalls, last >>

(***************************************************************************)
(* AddUser, DeleteUser, ResetUsers.  Each leaves the record of the latest  *)
(* call (last) to the specification that uses it.                          *)
(***************************************************************************)
\* the error AddUser(user, pass, addrs...) returns
AddUserErr(addrs) == CompileAll(addrs).err

\* a variant of AddUserResult that stores the user with the patterns that
\* did compile
AddUserResultPartial(m, user, pass, addrs) ==
    MapSet(m, user, MkUser(user, pass, SelectSeq(addrs, Compiles)))

\* the index after AddUser(user, pass, addrs...)
AddUserResult(m, user, pass, addrs) ==
    IF AddUserErr(addrs) THEN m
    ELSE MapSet(m, user, MkUser(user, pass, CompileAll(addrs).res))

AddUser(user, pass, addrs) ==
    /\ users' = AddUserResult(users, user, pass, addrs)
    /\ calls' = Observed(calls, users')
    /\ UNCHANGED << built, forwarded, sessions, ncalls >>

\* a variant of DeleteUser that also drops the sessions bound to the user
DeleteUserAndSessions(user) ==
    /\ users' = MapDel(users, user)
    /\ sessions' = [id \in { i \in DOMAIN sessions : sessions[i].Name # user }
                        |-> sessions[id]]
    /\ calls' = Observed(calls, users')
    /\ UNCHANGED << built, forwarded, ncalls >>

DeleteUser(user) ==
    /\ users' = MapDel(users, user)
    /\ calls' = Observed(calls, users')
    /\ UNCHANGED << built, forwarded, sessions, ncalls >>

ResetUsers(list) ==
    /\ users' = MapReset(list)
    /\ calls' = Observed(calls, users')
    /\ UNCHANGED << built, forwarded, sessions, ncalls >>

(***************************************************************************)
(* authUserURL.                                                            *)
(***************************************************************************)
\* json.Marshal(authData); an error ends the call
AuthURLMarshal(c) ==
    /\ calls[c].pc = "marshal"
    /\ \E marshalErr \in BOOLEAN :
          calls' = [calls EXCEPT ![c] =
              IF marshalErr
              THEN Failed(@, "Invalid authentication for username: %s")
              ELSE [@ EXCEPT !.pc = "post"]]
    /\ UNCHANGED << built, forwarded, users, sessions, ncalls, last >>

\* a variant of Accepted that drops the error of json.Unmarshal
AcceptedUnparsed(r) == ~r.err /\ Is2xx(r.status) /\ r.readOK

\* a variant of Accepted that asks the body for a true "ok" member
AcceptedIfOK(r) ==
    ~r.err /\ Is2xx(r.status) /\ r.readOK /\ r.body = "{\"ok\":true}"

\* the response lets the call go on to the ACL lookup: no transport error,
\* a 2xx status, a body that was read and parsed
Accepted(r) == ~r.err /\ Is2xx(r.status) /\ r.readOK /\ UnmarshalOK(r.body)

\* the error text of each way a response ends the call: the Post fails, the
\* status is not 2xx, the body cannot be read, the body cannot be parsed
PostFailure(r) ==
    IF r.err THEN "Invalid authentication for username: %s"
    ELSE IF ~Is2xx(r.status) THEN "Invalid authentication for username: %s"
    ELSE IF ~r.readOK THEN "Invalid authentication for username: %s"
    ELSE "Invalid authentication for username: %s"

\* s.authURLClient.Post(...) returns r, one of the answers the endpoint may
\* give: the error, the status, reading and parsing the body, and the choice
\* of the ACL lookup key
AuthURLPost(c, answers) ==
    /\ calls[c].pc = "post"
    /\ \E r \in answers :
          calls' = [calls EXCEPT ![c] =
              IF Accepted(r)
              THEN [@ EXCEPT !.pc = "acl", !.resp = r,
                             !.key = UserNameACL(calls[c].user,
                                         config.AuthURLAssumeUniqueUsernames)]
              ELSE Failed([@ EXCEPT !.resp = r], PostFailure(r))]
    /\ UNCHANGED << built, forwarded, users, sessions, ncalls, last >>

\* a variant of AuthURLGet that lets everyone in when the index is empty, as
\* authUser does
AuthURLGetOpen(c) ==
    /\ calls[c].pc = "acl"
    /\ LET call == [calls[c] EXCEPT !.looked = Append(@, Lookup(users, calls[c].key))]
       IN  calls' = [calls EXCEPT ![c] =
               IF AllowAll(users) THEN Succeeded(call)
               ELSE IF MapHas(users, call.key)
               THEN [call EXCEPT !.pc = "bind", !.acl = MapGet(users, call.key)]
               ELSE [call EXCEPT !.pc = "reload"]]
    /\ UNCHANGED << built, forwarded, users, sessions, ncalls, last >>

\* userACL, found := s.users.Get(userNameACL)
AuthURLGet(c) ==
    /\ calls[c].pc = "acl"
    /\ LET call == [calls[c] EXCEPT !.looked = Append(@, Lookup(users, calls[c].key))]
       IN  calls' = [calls EXCEPT ![c] =
               IF MapHas(users, call.key)
               THEN [call EXCEPT !.pc = "bind", !.acl = MapGet(users, call.key)]
               ELSE [call EXCEPT !.pc = "reload"]]
    /\ UNCHANGED << built, forwarded, users, sessions, ncalls, last >>

\* what LoadUserIndex may leave in the index: nothing new when the file
\* cannot be loaded (the error is dropped), else the file's users, replacing
\* the index or merged into it by name
LoadUserIndexResults(m) ==
    {m} \cup FileUsers \cup { MapMerge(m, f) : f \in FileUsers }

\* _ = s.users.LoadUserIndex()
AuthURLReload(c) ==
    /\ calls[c].pc = "reload"
    /\ \E nu \in LoadUserIndexResults(users) :
          /\ users' = nu
          /\ calls' = Observed([calls EXCEPT ![c] =
                         [@ EXCEPT !.pc = "retry", !.reloads = @ + 1]], nu)
    /\ UNCHANGED << built, forwarded, sessions, ncalls, last >>

\* a variant of AuthURLRetry that reloads again when the key is still absent
AuthURLRetryAgain(c) ==
    /\ calls[c].pc = "retry"
    /\ LET call == [calls[c] EXCEPT !.looked = Append(@, Lookup(users, calls[c].key))]
       IN  calls' = [calls EXCEPT ![c] =
               IF MapHas(users, call.key)
               THEN [call EXCEPT !.pc = "bind", !.acl = MapGet(users, call.key)]
               ELSE [call EXCEPT !.pc = "reload"]]
    /\ UNCHANGED << built, forwarded, users, sessions, ncalls, last >>

\* userACL, found = s.users.Get(userNameACL) after the reload
AuthURLRetry(c) ==
    /\ calls[c].pc = "retry"
    /\ LET call == [calls[c] EXCEPT !.looked = Append(@, Lookup(users, calls[c].key))]
       IN  calls' = [calls EXCEPT ![c] =
               IF MapHas(users, call.key)
               THEN [call EXCEPT !.pc = "bind", !.acl = MapGet(users, call.key)]
               ELSE Failed(call, "Invalid authentication for username: %s")]
    /\ UNCHANGED << built, forwarded, users, sessions, ncalls, last >>

\* the identity authUserURL synthesizes
URLUser(name, password, userACL) == MkUser(name, password, userACL.Addrs)

\* s.sessions.Set(string(c.SessionID()), user); return nil, nil
AuthURLSet(c) ==
    /\ calls[c].pc = "bind"
    /\ LET user == URLUser(calls[c].user, calls[c].pass, calls[c].acl)
       IN  /\ sessions' = MapSet(sessions, calls[c].sid, user)
           /\ calls' = [calls EXCEPT ![c] = Succeeded([@ EXCEPT !.bound = <<user>>,
                                                                !.order = NextOrder])]
    /\ UNCHANGED << built, forwarded, users, ncalls, last >>

(***************************************************************************)
(* The reverse proxy.  A request that is not a tunnel is handed to         *)
(* s.reverseProxy, whose Director rewrites it before it is sent on.        *)
(***************************************************************************)
Requests ==
    [Scheme : { "", "http" }, URLHost : { "", "front" },
     Host : { "front", "backend" }, Path : { "/", "/a" }]

\* a variant of Director that leaves the Host header as it came
DirectorKeepsHost(u, r) == [r EXCEPT !.Scheme = u.Scheme, !.URLHost = u.Host]

\* r.URL.Scheme = u.Scheme; r.URL.Host = u.Host; r.Host = u.Host
Director(u, r) ==
    [r EXCEPT !.Scheme = u.Scheme, !.URLHost = u.Host, !.Host = u.Host]

Forward(r) ==
    /\ startup = "serving"
    /\ reverseProxy.set
    /\ forwarded' = [set |-> TRUE, in |-> r, out |-> Director(reverseProxy, r)]
    /\ UNCHANGED << built, users, sessions, calls, ncalls, last >>

(***************************************************************************)
(* The connection under a running callback goes away.  Neither callback    *)
(* takes a context or reads the state of the connection, so the closing    *)
(* only leaves a mark; whatever the session map held for the connection is *)
(* dropped with it.                                                        *)
(***************************************************************************)
InFlight(c) == calls[c].pc \notin { "idle", "done" }

CloseConn(c) ==
    /\ InFlight(c)
    /\ ~calls[c].closed
    /\ calls' = [calls EXCEPT ![c].closed = TRUE]
    /\ sessions' = MapDel(sessions, calls[c].sid)
    /\ UNCHANGED << built, forwarded, users, ncalls, last >>

(***************************************************************************)
(* Specifications.                                                         *)
(***************************************************************************)
Callback(c, answers) ==
    \/ AuthUserLen(c)
    \/ AuthUserGet(c)
    \/ AuthUserSet(c)
    \/ AuthURLMarshal(c)
    \/ AuthURLPost(c, answers)
    \/ AuthURLGet(c)
    \/ AuthURLReload(c)
    \/ AuthURLRetry(c)
    \/ AuthURLSet(c)

\* Spec: one connection (session 1) trying passwords one after the other
\* while the index is edited between and during its callbacks.
SpecAddrs == { <<"^h$">>, <<"", "(">> }
SpecResets == { << >>, << MkUser(<<"b">>, <<"p", "w">>, <<"">>) >> }

Next ==
    \/ \E u \in UserNames, p \in Passwords : Start(1, u, p, 1, MaxCalls)
    \/ Callback(1, Responses)
    \/ Return(1)
    \/ \E u \in StoreNames, p \in Passwords, a \in SpecAddrs :
          AddUser(u, p, a) /\ UNCHANGED last
    \/ \E u \in StoreNames : DeleteUser(u) /\ UNCHANGED last
    \/ \E l \in SpecResets : ResetUsers(l) /\ UNCHANGED last

Spec == Init /\ [][Next]_vars

\* SpecUsers: the index is edited through AddUser, DeleteUser and ResetUsers,
\* each call and its result recorded in last.
ResetLists ==
    { << >>,
      << MkUser(<<"b">>, <<"p", "w">>, <<"^h$">>) >>,
      << MkUser(<<"b">>, <<"p", "w">>, <<"^h$">>), MkUser(<<"b">>, <<"P", "w">>, << >>) >>,
      << MkUser(<<"b", "@", "x">>, <<"p", "w">>, <<"">>),
         MkUser(<<"b">>, <<"P", "w">>, << >>) >> }

UsersPatterns == { "^h$", "(" }

NextUsers ==
    \/ \E u \in StoreNames, a \in SeqsUpTo(UsersPatterns, MaxAddrs) :
          /\ AddUser(u, <<"p", "w">>, a)
          /\ last' = [NoOp EXCEPT !.op = "AddUser", !.user = u, !.pass = <<"p", "w">>,
                                  !.addrs = a, !.err = AddUserErr(a),
                                  !.before = users]
    \/ \E u \in UserNames :
          /\ DeleteUser(u)
          /\ last' = [NoOp EXCEPT !.op = "DeleteUser", !.user = u, !.before = users]
    \/ \E l \in ResetLists :
          /\ ResetUsers(l)
          /\ last' = [NoOp EXCEPT !.op = "ResetUsers", !.list = l, !.before = users]

SpecUsers == Init /\ [][NextUsers]_vars

\* SpecConc: every connection runs one password callback, all at the same
\* time and each with its own session id, on a server built with users b and
\* b@x in its index.
ConcConfigs ==
    { c \in Configs : /\ c.AuthFile.set
                      /\ DOMAIN c.AuthFile.content = StoreNames
                      /\ c.Auth.set /\ c.Auth.name = <<"b">> }
ConcAnswers ==
    { PostError,
      [err |-> FALSE, status |-> 200, readOK |-> TRUE, body |-> "{}"] }

InitConc == \E c \in ConcConfigs : NewServer(c)

NextConc ==
    \/ \E c \in Conns, u \in UserNames, p \in Passwords : Start(c, u, p, c, 1)
    \/ \E c \in Conns : Callback(c, ConcAnswers)

SpecConc == InitConc /\ [][NextConc]_vars

\* SpecBodies: every connection runs one password callback with the same
\* password, all at the same time, and the endpoint answers each with one
\* JSON object or another.
BodyAnswers ==
    ConcAnswers \cup
        { [err |-> FALSE, status |-> 200, readOK |-> TRUE, body |-> "{\"ok\":true}"] }

NextBodies ==
    \/ \E c \in Conns, u \in { <<"b">>, <<"b", "@", "x", "@", "y">> } :
          Start(c, u, <<"p", "w">>, c, 1)
    \/ \E c \in Conns : Callback(c, BodyAnswers)

SpecBodies == InitConc /\ [][NextBodies]_vars

\* SpecShared: every connection runs one password callback, all at the same
\* time and all with session id 1.
NextShared ==
    \/ \E c \in Conns, u \in UserNames : Start(c, u, <<"p", "w">>, 1, 1)
    \/ \E c \in Conns : Callback(c, ConcAnswers)

SpecShared == InitConc /\ [][NextShared]_vars

\* SpecClose: one connection (session 1) whose peer may go away while its
\* password callback is running.
NextClose ==
    \/ \E u \in UserNames, p \in Passwords : Start(1, u, p, 1, MaxCalls)
    \/ Callback(1, Responses)
    \/ Return(1)
    \/ CloseConn(1)

SpecClose == Init /\ [][NextClose]_vars

\* SpecBoot: NewServer on every way the certificate file, the key, the users
\* file and the proxy target can turn out; the server it returns, if any,
\* runs password callbacks for one connection and forwards requests.
BootConfigs ==
    [AuthFile : { [set |-> FALSE, err |-> FALSE, content |-> EmptyMap],
                  [set |-> TRUE, err |-> TRUE, content |-> EmptyMap] },
     Auth : { [set |-> TRUE, name |-> <<"b">>, pass |-> <<"p", "w">>] },
     AuthURL : BOOLEAN,
     AuthURLAssumeUniqueUsernames : { FALSE },
     AuthURLCaCert : CaCerts,
     SystemCertPool : BOOLEAN,
     KeyErr : BOOLEAN,
     Proxy : { "" } \cup ProxyURLs]

InitBoot == \E c \in BootConfigs : NewServer(c)

NextBoot ==
    \/ \E u \in { <<"b">>, <<"b", "@", "x", "@", "y">> }, p \in Passwords :
          Start(1, u, p, 1, MaxCalls)
    \/ Callback(1, ConcAnswers)
    \/ Return(1)
    \/ \E r \in Requests : Forward(r)

SpecBoot == InitBoot /\ [][NextBoot]_vars

(***************************************************************************)
(* Properties.                                                             *)
(***************************************************************************)
Done(c) == calls[c].pc = "done"
Outcome(c) == [ok |-> calls[c].ok, bound |-> calls[c].bound]
Local == callback = "authUser"
Remote == callback = "authUserURL"

\* C1: an authUser call that finds the index empty (s.users.Len() returned 0)
\* succeeds whatever the user name and password, passes no identity to
\* s.sessions.Set and leaves the session map as it was when the call started.
C1_EmptyIndexAcceptsAll ==
    \A c \in Conns :
        (Local /\ Done(c) /\ calls[c].nlen = 0)
            => /\ calls[c].ok
               /\ calls[c].bound = << >>
               /\ sessions = calls[c].sess0

\* an authUser call has accepted an unknown user with the empty index
C1_Witness ==
    \E c \in Conns :
        /\ Local /\ Done(c) /\ calls[c].nlen = 0 /\ calls[c].ok
        /\ calls[c].user = <<"b", "@", "x", "@", "y">>
        /\ calls[c].pass = <<"P", "w">>
        /\ users = EmptyMap /\ sessions = EmptyMap

\* C2: an authUser call that finds the index non-empty looks the user name
\* up once and succeeds exactly when the name is present and its stored
\* password equals the presented one character by character; on success the
\* session map holds the stored record under the call's session id, on
\* failure nothing was passed to s.sessions.Set; and when the Local policy
\* gives one and the same answer on every content the index had during the
\* call, that answer is the call's outcome.
C2_LocalPasswordCheck ==
    \A c \in Conns :
        (Local /\ Done(c) /\ calls[c].nlen > 0)
            => /\ Len(calls[c].looked) = 1
               /\ calls[c].looked[1].key = calls[c].user
               /\ calls[c].ok <=> ( /\ calls[c].looked[1].found
                                    /\ calls[c].looked[1].rec.Pass = calls[c].pass )
               /\ calls[c].ok =>
                     /\ calls[c].bound = << calls[c].looked[1].rec >>
                     /\ calls[c].sid \in DOMAIN sessions
                     /\ sessions[calls[c].sid] = calls[c].looked[1].rec
               /\ ~calls[c].ok => calls[c].bound = << >>
               /\ Cardinality(calls[c].atomic) = 1 => Outcome(c) \in calls[c].atomic

\* an authUser call has bound its session to the stored record of a user
\* whose password has an upper-case letter
C2_Witness ==
    \E c \in Conns :
        /\ Local /\ Done(c) /\ calls[c].nlen > 0 /\ calls[c].ok
        /\ calls[c].pass = <<"P", "w">>
        /\ calls[c].sid \in DOMAIN sessions
        /\ sessions[calls[c].sid].Name = calls[c].user
        /\ sessions[calls[c].sid].Pass = <<"P", "w">>

\* C3: a callback of either strategy that returns an error has passed
\* nothing to s.sessions.Set, and the session map is what it was when the
\* call started.
C3_FailureLeavesSessions ==
    \A c \in Conns :
        (Done(c) /\ ~calls[c].ok)
            => /\ calls[c].bound = << >>
               /\ sessions = calls[c].sess0

\* an authUser call found the user, rejected the password and left the
\* session id without an entry
C3_Witness ==
    \E c \in Conns :
        /\ Local /\ Done(c) /\ ~calls[c].ok
        /\ Len(calls[c].looked) = 1 /\ calls[c].looked[1].found
        /\ calls[c].sid \notin DOMAIN calls[c].sess0
        /\ calls[c].sid \notin DOMAIN sessions

\* C4: the latest AddUser call returned an error and left the index as it
\* was if one of its patterns, at any position, does not compile; otherwise
\* it returned no error and the index holds the user with all the patterns.
C4_AddUserAllOrNothing ==
    last.op = "AddUser"
        => IF \E i \in DOMAIN last.addrs : last.addrs[i] \in BadPatterns
           THEN last.err /\ users = last.before
           ELSE /\ ~last.err
                /\ users = MapSet(last.before, last.user,
                                  MkUser(last.user, last.pass, last.addrs))

\* AddUser was given a valid pattern followed by an invalid one while the
\* index held users
C4_Witness ==
    /\ last.op = "AddUser"
    /\ last.addrs = << "^h$", "(" >>
    /\ last.err
    /\ last.before # EmptyMap
    /\ users = last.before

\* C5: an authUserURL call whose response carries a status below 200 or
\* above 299 fails whatever the body and the index hold, without any Get on
\* the index, without a reload and without a write to the session map.
C5_Non2xxFails ==
    \A c \in Conns :
        ( /\ Remote /\ Done(c)
          /\ calls[c].resp # NoResp /\ ~calls[c].resp.err
          /\ (calls[c].resp.status < 200 \/ calls[c].resp.status > 299) )
            => /\ ~calls[c].ok
               /\ calls[c].looked = << >>
               /\ calls[c].reloads = 0
               /\ calls[c].bound = << >>
               /\ sessions = calls[c].sess0

\* the endpoint answered 300 with a well-formed body for a user the index
\* holds, and the call has returned
C5_Witness ==
    \E c \in Conns :
        /\ Remote /\ Done(c) /\ ~calls[c].ok
        /\ calls[c].resp.status = 300 /\ calls[c].resp.readOK
        /\ calls[c].resp.body = "{\"ok\":true}"
        /\ calls[c].user \in DOMAIN users

\* the steps of authUserURL before the ACL lookup all succeeded: the
\* credentials were serialized and posted, the status is 2xx, the body was
\* read and is a JSON object (or null, which json.Unmarshal accepts)
StepsSucceeded(r) ==
    /\ r # NoResp /\ ~r.err
    /\ r.status >= 200 /\ r.status <= 299
    /\ r.readOK
    /\ JSONKind(r.body) \in { "object", "null" }

\* C6: an authUserURL call goes on to the ACL lookup, and so to success or to
\* a write of the session map, only if every earlier step succeeded; if
\* serializing, posting, reading the body or parsing it failed, the call has
\* failed without a lookup and without a write.
C6_RemoteFailsClosed ==
    \A c \in Conns :
        Remote =>
            /\ ( calls[c].pc \in { "acl", "reload", "retry", "bind" }
                 \/ (Done(c) /\ calls[c].ok)
                 \/ calls[c].looked # << >>
                 \/ calls[c].bound # << >> )
                    => StepsSucceeded(calls[c].resp)
            /\ (Done(c) /\ ~StepsSucceeded(calls[c].resp))
                    => /\ ~calls[c].ok
                       /\ calls[c].bound = << >>
                       /\ sessions = calls[c].sess0

\* the endpoint answered 200 with a body that is not a JSON object for a
\* user the index holds, and the call has failed
C6_Witness ==
    \E c \in Conns :
        /\ Remote /\ Done(c) /\ ~calls[c].ok
        /\ calls[c].resp.status = 200 /\ calls[c].resp.readOK
        /\ calls[c].resp.body = "[]"
        /\ calls[c].user \in DOMAIN users

\* C7: an authUserURL call never reloads the index more than once; once it
\* has returned after an accepted response it has reloaded zero times if its
\* first lookup found the key and exactly once if it missed, it has looked
\* the key up once more after the reload, and it has failed if the key was
\* still absent.
C7_OneReloadPerCall ==
    \A c \in Conns :
        Remote =>
            /\ calls[c].reloads <= 1
            /\ Len(calls[c].looked) <= 2
            /\ (Done(c) /\ calls[c].looked # << >>) =>
                  /\ calls[c].reloads = IF calls[c].looked[1].found THEN 0 ELSE 1
                  /\ Len(calls[c].looked) = 1 + calls[c].reloads
                  /\ ~calls[c].looked[Len(calls[c].looked)].found => ~calls[c].ok

\* a call missed the key, reloaded once, missed it again and failed
C7_Witness ==
    \E c \in Conns :
        /\ Remote /\ Done(c) /\ ~calls[c].ok
        /\ calls[c].reloads = 1
        /\ Len(calls[c].looked) = 2
        /\ ~calls[c].looked[1].found /\ ~calls[c].looked[2].found

\* the user name up to its first '@'
RECURSIVE BeforeFirstAt(_)
BeforeFirstAt(s) ==
    IF s = << >> \/ Head(s) = "@" THEN << >>
    ELSE <<Head(s)>> \o BeforeFirstAt(Tail(s))

\* C8: every lookup of an authUserURL call uses the asserted user name cut
\* before its first '@' when AuthURLAssumeUniqueUsernames is set and the
\* asserted name itself otherwise; after a successful call the session map
\* holds, under the call's session id, the asserted name and password with
\* the address patterns of the record the last lookup found, whatever that
\* record's name and password.
C8_RemoteIdentity ==
    \A c \in Conns :
        Remote =>
            /\ \A i \in DOMAIN calls[c].looked :
                  calls[c].looked[i].key =
                      IF config.AuthURLAssumeUniqueUsernames
                      THEN BeforeFirstAt(calls[c].user) ELSE calls[c].user
            /\ (Done(c) /\ calls[c].ok) =>
                  /\ calls[c].looked # << >>
                  /\ calls[c].looked[Len(calls[c].looked)].found
                  /\ calls[c].bound =
                        << [Name |-> calls[c].user, Pass |-> calls[c].pass,
                            Addrs |-> calls[c].looked[Len(calls[c].looked)].rec.Addrs] >>
                  /\ calls[c].sid \in DOMAIN sessions
                  /\ sessions[calls[c].sid] = calls[c].bound[1]

\* b@x@y was accepted with the patterns of b, whose stored password differs
\* from the asserted one
C8_Witness ==
    \E c \in Conns :
        /\ Remote /\ Done(c) /\ calls[c].ok
        /\ config.AuthURLAssumeUniqueUsernames
        /\ calls[c].user = <<"b", "@", "x", "@", "y">>
        /\ calls[c].pass = <<"p", "w">>
        /\ calls[c].looked[Len(calls[c].looked)].rec.Name = <<"b">>
        /\ calls[c].looked[Len(calls[c].looked)].rec.Pass = <<"P", "w">>
        /\ sessions[calls[c].sid] =
              MkUser(<<"b", "@", "x", "@", "y">>, <<"p", "w">>, <<"^h$">>)

C10_LocalSnapshot ==
    \A c \in Conns :
        (Local /\ Done(c)) => Outcome(c) \in calls[c].atomic

\* C11: when a connection was closed while its password callback (authUser
\* or authUserURL) was running, then once the callback has returned the
\* session map holds no entry under the session id of that connection.
C11_ClosedLeavesNoSession ==
    \A c \in Conns :
        (Done(c) /\ calls[c].closed) => calls[c].sid \notin DOMAIN sessions

\* the steps of NewServer before the CA certificate went through
ReachesCaCert == ~config.LoadUsersErr /\ ~config.KeyErr /\ config.AuthURL

\* the proxy target, if any, is one NewServer accepts
ProxyAccepted == config.Proxy = "" \/ ~ProxyInvalid(URLParse(config.Proxy))

\* a password callback of the connection has started
Served(c) == calls[c].pc # "idle"

ReachesProxy ==
    /\ ~config.LoadUsersErr /\ ~config.KeyErr
    /\ ~(config.AuthURL /\ config.AuthURLCaCert.set /\ ~config.AuthURLCaCert.readable)

\* C13: with a proxy target configured, a target that does not parse as a
\* URL or parses without a host makes NewServer return an error: there is no
\* server, no reverse proxy, nothing is served or forwarded; a target that
\* parses with a host gives a server whose reverse proxy forwards to the
\* scheme and host of the target.
C13_ProxyTargetChecked ==
    LET u == URLParse(config.Proxy)
    IN  config.Proxy # ""
            => /\ (u.err \/ u.Host = "")
                    => /\ startup # "serving"
                       /\ ReachesProxy => startup = "error"
                       /\ ~reverseProxy.set
                       /\ ~forwarded.set
                       /\ \A c \in Conns : ~Served(c)
               /\ (~u.err /\ u.Host # "" /\ ReachesProxy)
                    => /\ startup = "serving"
                       /\ reverseProxy = [set |-> TRUE, Scheme |-> u.Scheme,
                                          Host |-> u.Host]

\* NewServer has refused a proxy target that parses as a URL without a host
C13_Witness ==
    /\ config.Proxy = "backend:8443"
    /\ ~URLParse(config.Proxy).err
    /\ ReachesProxy
    /\ startup = "error" /\ ~reverseProxy.set

\* C14: after the Director has run on a request, the scheme and host of the
\* request URL and the Host header are the scheme and host of the configured
\* backend, whatever they were in the inbound request, and the path is the
\* inbound one.
C14_DirectorRewrites ==
    LET u == URLParse(config.Proxy)
    IN  forwarded.set
            => /\ forwarded.out.Scheme = u.Scheme
               /\ forwarded.out.URLHost = u.Host
               /\ forwarded.out.Host = u.Host
               /\ forwarded.out.Path = forwarded.in.Path

\* a request that came without a URL scheme or host, for another Host and
\* with a path, has been directed to the backend
C14_Witness ==
    /\ forwarded.set
    /\ config.Proxy = "https://backend:8443"
    /\ forwarded.in = [Scheme |-> "", URLHost |-> "", Host |-> "front", Path |-> "/a"]
    /\ forwarded.out = [Scheme |-> "https", URLHost |-> "backend:8443",
                        Host |-> "backend:8443", Path |-> "/a"]

\* the callback of connection c is at a step of authUser / of authUserURL
InAuthUser(c) == calls[c].pc \in { "len", "get", "set" }
InAuthUserURL(c) ==
    calls[c].pc \in { "marshal", "post", "acl", "reload", "retry", "bind" }

\* the strategy NewServer chose is the one the Config asks for, and every
\* callback runs it alone
StrategyOfConfig ==
    /\ config.AuthURL
        => /\ callback = "authUserURL"
           /\ \A c \in Conns :
                 /\ ~InAuthUser(c)
                 /\ calls[c].nlen = -1
                 /\ (Done(c) /\ calls[c].ok)
                       => /\ calls[c].resp # NoResp
                          /\ calls[c].looked # << >>
                          /\ calls[c].looked[Len(calls[c].looked)].found
                          /\ calls[c].bound # << >>
    /\ ~config.AuthURL
        => /\ callback = "authUser"
           /\ \A c \in Conns :
                 /\ ~InAuthUserURL(c)
                 /\ calls[c].resp = NoResp
                 /\ calls[c].reloads = 0
                 /\ Served(c) => calls[c].nlen >= 0 \/ calls[c].pc = "len"

\* C15: the verification strategy is the one NewServer chose from the Config
\* and no step changes it; with an auth URL configured every callback is
\* authUserURL, s.users.Len() is never consulted and no peer is admitted
\* without an answer of the endpoint and an ACL record found, even with the
\* index empty; without an auth URL every callback is authUser.
C15_StrategyFixed ==
    /\ []StrategyOfConfig
    /\ [][callback' = callback /\ config' = config]_vars

\* on a server with an auth URL and an empty index, a peer the endpoint
\* accepted was rejected
C15_Witness ==
    \E c \in Conns :
        /\ config.AuthURL /\ Done(c) /\ ~calls[c].ok
        /\ StepsSucceeded(calls[c].resp)
        /\ users = EmptyMap /\ calls[c].sess0 = EmptyMap /\ sessions = EmptyMap

\* the one rejection: the text with its placeholder left as it is
Rejection == [text |-> "Invalid authentication for username: %s", args |-> << >>]

\* C16: every callback of either strategy that fails returns the same
\* error, whatever made it fail and whatever user name and password were
\* presented: one fixed text into which neither the user name nor the
\* password is formatted; a callback that succeeds returns no error.
C16_OneRejection ==
    \A c \in Conns :
        Done(c) => /\ ~calls[c].ok => calls[c].err = Rejection
                   /\ calls[c].ok => calls[c].err = NoErr

\* an authUserURL call for a name that is in no index has failed after the
\* endpoint accepted it and the index was reloaded
C16_Witness ==
    \E c \in Conns :
        /\ Remote /\ Done(c) /\ ~calls[c].ok
        /\ StepsSucceeded(calls[c].resp)
        /\ calls[c].reloads = 1
        /\ calls[c].user = <<"b", "@", "x", "@", "y">>
        /\ calls[c].err = Rejection

\* the endpoint answered the call of connection c with a 2xx status and a
\* body that is a JSON object
ObjectAnswer(c) ==
    /\ StepsSucceeded(calls[c].resp)
    /\ JSONKind(calls[c].resp.body) = "object"

\* C17: two authUserURL calls with the same user name, password and
\* response status, answered with JSON objects of whatever content and run
\* on an index that was not reloaded meanwhile, end alike: both fail with
\* the same error or both succeed and leave the same identity in the session
\* map; and whatever the object holds, the call goes on to the ACL lookup.
C17_BodyIgnored ==
    /\ \A c \in Conns :
           (Remote /\ Done(c) /\ ObjectAnswer(c)) => calls[c].looked # << >>
    /\ \A c, d \in Conns :
           ( /\ Remote /\ Done(c) /\ Done(d)
             /\ ObjectAnswer(c) /\ ObjectAnswer(d)
             /\ calls[c].user = calls[d].user
             /\ calls[c].pass = calls[d].pass
             /\ calls[c].resp.status = calls[d].resp.status
             /\ \A e \in Conns : calls[e].reloads = 0 )
               => /\ calls[c].ok = calls[d].ok
                  /\ calls[c].err = calls[d].err
                  /\ calls[c].bound = calls[d].bound
                  /\ calls[c].ok
                        => /\ calls[c].sid \in DOMAIN sessions
                           /\ calls[d].sid \in DOMAIN sessions
                           /\ sessions[calls[c].sid] = sessions[calls[d].sid]

\* two calls for the same user and password were answered {} and
\* {"ok":true}, and both were accepted
C17_Witness ==
    \E c, d \in Conns :
        /\ Remote /\ Done(c) /\ Done(d)
        /\ calls[c].user = calls[d].user /\ calls[c].pass = calls[d].pass
        /\ calls[c].resp.status = 200 /\ calls[d].resp.status = 200
        /\ calls[c].resp.body = "{}"
        /\ calls[d].resp.body = "{\"ok\":true}"
        /\ calls[c].ok /\ calls[d].ok
        /\ \A e \in Conns : calls[e].reloads = 0
        /\ sessions[calls[c].sid] = sessions[calls[d].sid]

\* the calls on record that wrote the session map under id
Writers(id) == { c \in Conns : calls[c].order > 0 /\ calls[c].sid = id }

\* the one of them that wrote last
LastWriter(id) ==
    CHOOSE c \in Writers(id) : \A d \in Writers(id) : calls[d].order <= calls[c].order

\* C18: the session map holds one entry per session id that was written
\* and none else; when several successful callbacks carried the same session
\* id the entry is the identity of the one that wrote last; a callback that
\* finds its session id already bound is not refused and adds no entry: its
\* identity replaces the one that was there.
C18_LastWriterWins ==
    /\ DOMAIN sessions = { calls[c].sid : c \in { d \in Conns : calls[d].order > 0 } }
    /\ \A id \in DOMAIN sessions :
           sessions[id] = calls[LastWriter(id)].bound[1]
    /\ \A c \in Conns :
           (Done(c) /\ calls[c].ok /\ calls[c].bound # << >>) => calls[c].order > 0
    /\ \A c, d \in Conns :
           (calls[c].order > 0 /\ calls[c].order = calls[d].order) => c = d

\* two authUser callbacks with session id 1 succeeded for two users; the map
\* holds the second one
C18_Witness ==
    \E c, d \in Conns :
        /\ Local
        /\ calls[c].sid = calls[d].sid
        /\ calls[c].order = 1 /\ calls[d].order = 2
        /\ calls[c].bound # calls[d].bound
        /\ DOMAIN sessions = { calls[d].sid }
        /\ sessions[calls[d].sid] = calls[d].bound[1]
        /\ sessions[calls[d].sid].Name = <<"b", "@", "x">>

\* C19: authUserURL has no open-auth fallback: a call succeeds only if the
\* endpoint accepted it and its last lookup found the ACL key; a call the
\* endpoint accepted, with a 2xx status and a well-formed body, that found
\* the index empty at its lookup and empty again after the reload, fails and
\* leaves the session map as it was.
C19_RemoteNeverOpen ==
    \A c \in Conns :
        (Remote /\ Done(c))
            => /\ calls[c].ok
                    => /\ StepsSucceeded(calls[c].resp)
                       /\ calls[c].looked # << >>
                       /\ calls[c].looked[Len(calls[c].looked)].found
                       /\ ~calls[c].looked[Len(calls[c].looked)].empty
               /\ ( /\ StepsSucceeded(calls[c].resp)
                    /\ \A i \in DOMAIN calls[c].looked : calls[c].looked[i].empty )
                    => /\ ~calls[c].ok
                       /\ calls[c].err = Rejection
                       /\ Len(calls[c].looked) = 2
                       /\ calls[c].reloads = 1
                       /\ calls[c].bound = << >>
                       /\ sessions = calls[c].sess0

\* the endpoint answered 200 with {} and the index was empty before and
\* after the reload: the call failed
C19_Witness ==
    \E c \in Conns :
        /\ Remote /\ Done(c) /\ ~calls[c].ok
        /\ calls[c].resp.status = 200 /\ calls[c].resp.readOK
        /\ calls[c].resp.body = "{}"
        /\ Len(calls[c].looked) = 2
        /\ calls[c].looked[1].empty /\ calls[c].looked[2].empty
        /\ users = EmptyMap

\* a step of AddUser, DeleteUser or ResetUsers: the only steps of Spec in
\* which no callback starts, moves on or returns
AdminStep == \A c \in Conns : calls'[c].pc = calls[c].pc

\* C20: a call of AddUser, DeleteUser or ResetUsers leaves the session map
\* as it was, with every entry an earlier callback wrote still there under
\* the same identity, and changes nothing else of the server but the index.
C20_AdminKeepsSessions ==
    [][AdminStep => /\ sessions' = sessions
                    /\ ncalls' = ncalls
                    /\ built' = built]_vars

\* the session of an authUser call is still bound to b, with the password
\* the call checked, after b was taken out of the index and put back with
\* another password
C20_Witness ==
    /\ Local
    /\ 1 \in DOMAIN sessions
    /\ sessions[1].Name = <<"b">> /\ sessions[1].Pass = <<"p", "w">>
    /\ <<"b">> \in DOMAIN users /\ users[<<"b">>].Pass = <<"P", "w">>
    /\ \E c \in Conns : Done(c) /\ calls[c].ok /\ calls[c].bound = << sessions[1] >>
====
